---- MODULE Spec2Model ----
(***************************************************************************)
(* Model of credential ingestion in tob-api/api_v2/indy/credential.py:     *)
(* the Credential view, CredentialManager.process and                      *)
(* CredentialManager.populate_application_database (claim decoding, the    *)
(* processor pipeline, the record mapper and the versioned upsert of       *)
(* Name/Address/Person/Contact records).                                   *)
(***************************************************************************)
EXTENDS Integers, Sequences, FiniteSets, TLC

(* ------------------------------------------------------------------ *)
(* Bounds                                                               *)
(* ------------------------------------------------------------------ *)

\* Number of credentials ingested in one behaviour.
MaxCreds == 3

\* Longest processor list of a field.
MaxPipeline == 3

\* Number of workers that ingest credentials concurrently.
NumWorkers == 2

\* Number of add_filter calls on one ProofManager.
MaxFilters == 2

\* Longest list of candidate credentials the wallet offers for an attribute.
MaxCandidates == 2

(* ------------------------------------------------------------------ *)
(* Values                                                               *)
(* ------------------------------------------------------------------ *)

\* Python's None, as distinct from the three-character string "None".
NULL == "<null>"

\* Raw claim values and literals that occur in payloads and configurations.
RawValues == {"A", "B", "None"}

\* Columns of the Name/Address/Person/Contact tables that rules write.
FieldNames == {"f1", "f2"}

SUPPORTED_MODELS_MAPPING == {"name", "address", "person", "contact"}

\* Members that normal attribute lookup finds on a Credential object, so
\* that __getattr__ is never consulted for them.
CredentialMembers ==
    {"raw", "json", "origin_did", "schema_name", "schema_version",
     "claim_attributes"}

(* ------------------------------------------------------------------ *)
(* Credential: the decoded view of a payload                            *)
(* ------------------------------------------------------------------ *)

\* credential_data is [schema_id |-> <<did, name, version>>,
\*                     keys |-> <<claim names in payload order>>,
\*                     values |-> [claim name |-> [raw |-> value]]].
Credential(credential_data) ==
    [_raw |-> credential_data,
     _schema_id |-> credential_data.schema_id,
     _claim_attributes |-> credential_data.keys]

origin_did(credential) == credential._schema_id[1]
schema_name(credential) == credential._schema_id[2]
schema_version(credential) == credential._schema_id[3]
claim_attributes(credential) == credential._claim_attributes

\* getattr(credential, name): a property when the name is one of the
\* object's own members, else the claim's raw value, else AttributeError.
GetAttr(credential, name) ==
    IF name \in CredentialMembers
    THEN [ok |-> TRUE, member |-> TRUE,
          value |-> CASE name = "origin_did" -> origin_did(credential)
                      [] name = "schema_name" -> schema_name(credential)
                      [] name = "schema_version" -> schema_version(credential)
                      [] OTHER -> "<object>"]
    ELSE IF name \in DOMAIN credential._raw.values
    THEN [ok |-> TRUE, member |-> FALSE,
          value |-> credential._raw.values[name].raw]
    ELSE [ok |-> FALSE, error |-> "AttributeError"]

(* ------------------------------------------------------------------ *)
(* Processor functions                                                  *)
(* ------------------------------------------------------------------ *)

\* Modules importable below PROCESSOR_FUNCTION_BASE_PATH and their functions.
ProcessorModules == {"string_helpers"}
ProcessorFunctionNames == {"rotate", "collapse"}

\* Two sample processor functions that do not commute and are not idempotent.
CallFunction(function, v) ==
    CASE function = "rotate" ->
           (CASE v = "A" -> "B" [] v = "B" -> "None" [] v = "None" -> "A"
              [] OTHER -> v)
      [] function = "collapse" ->
           (CASE v = "B" -> "A" [] OTHER -> v)
      [] OTHER -> v

\* Python's list.reverse().
RECURSIVE Reverse(_)
Reverse(s) ==
    IF Len(s) = 0 THEN <<>> ELSE Append(Reverse(Tail(s)), Head(s))

\* The loop that resolves each dotted name <<path, name>> (the result of
\* rsplit(".", 1)) to a function and appends it to the pipeline.
RECURSIVE BuildPipeline(_, _)
BuildPipeline(processor, pipeline) ==
    IF Len(processor) = 0 THEN [ok |-> TRUE, pipeline |-> pipeline]
    ELSE LET function_path == Head(processor)[1]
             function_name == Head(processor)[2]
         IN  IF function_path \notin ProcessorModules
             THEN [ok |-> FALSE, error |-> "NoProcessorModule"]
             ELSE IF function_name \notin ProcessorFunctionNames
             THEN [ok |-> FALSE, error |-> "NoProcessorFunction"]
             ELSE BuildPipeline(Tail(processor),
                                Append(pipeline, function_name))

\* while len(pipeline) > 0: function = pipeline.pop(); value = function(value)
RECURSIVE PopAll(_, _)
PopAll(pipeline, field_value) ==
    IF Len(pipeline) = 0 THEN field_value
    ELSE PopAll(SubSeq(pipeline, 1, Len(pipeline) - 1),
                CallFunction(pipeline[Len(pipeline)], field_value))

\* Mutant: the pipeline is popped without having been reversed.
RunPipelineUnreversed(pipeline, field_value) == PopAll(pipeline, field_value)

\* pipeline.reverse() followed by the pop loop.
RunPipeline(pipeline, field_value) == PopAll(Reverse(pipeline), field_value)

\* Mutant: the 'None' string is stored as it is.
NormalizeKeep(field_value) == field_value

\* if processed_values[field] == "None": processed_values[field] = None
Normalize(field_value) == IF field_value = "None" THEN NULL ELSE field_value

\* Lines 318-323: the value as it leaves the pipeline (piped) and as it is
\* stored (value).
Processed(field_value) ==
    [ok |-> TRUE, piped |-> field_value, value |-> Normalize(field_value)]

\* Lines 310-316, once every function of the processor list is resolved.
Piped(built, field_value) ==
    IF ~built.ok THEN built
    ELSE Processed(RunPipeline(built.pipeline, field_value))

\* Lines 260-269: the value from the string literal or from the claim.
FieldValue(credential, field_data) ==
    IF field_data["from"] = "value"
    THEN [ok |-> TRUE, value |-> field_data["input"]]
    ELSE IF field_data["from"] = "claim"
    THEN GetAttr(credential, field_data["input"])
    ELSE [ok |-> FALSE, error |-> "UnsupportedFrom"]

\* Lines 271-323, given the value the field starts from.
Transform(base, field_data) ==
    IF ~base.ok THEN [ok |-> FALSE, error |-> base.error]
    ELSE IF "processor" \notin DOMAIN field_data
    THEN Processed(base.value)
    ELSE Piped(BuildPipeline(field_data["processor"], <<>>), base.value)

\* One iteration of the loop over a rule's fields: the value of one field,
\* or the error that ends the ingestion.
ProcessField(credential, field_data) ==
    IF ~({"input", "from"} \subseteq DOMAIN field_data)
    THEN [ok |-> FALSE, error |-> "MissingInputOrFrom"]
    ELSE Transform(FieldValue(credential, field_data), field_data)

\* processed_values[field] = value
Put(d, k, v) == [x \in (DOMAIN d) \cup {k} |-> IF x = k THEN v ELSE d[x]]

\* The loop over processor_config[i]["fields"], in configuration order;
\* the first failing field ends it.
RECURSIVE ProcessFields(_, _, _)
RECURSIVE NextField(_, _, _, _)
NextField(credential, fields, processed_values, r) ==
    IF ~r.ok THEN r
    ELSE ProcessFields(credential, Tail(fields),
                       Put(processed_values, Head(fields).field, r.value))

ProcessFields(credential, fields, processed_values) ==
    IF Len(fields) = 0
    THEN [ok |-> TRUE, processed_values |-> processed_values]
    ELSE NextField(credential, fields, processed_values,
                   ProcessField(credential, Head(fields).data))

(* ------------------------------------------------------------------ *)
(* Versioned upsert                                                     *)
(* ------------------------------------------------------------------ *)

\* end_date column: None, or the time it was set.
NoEndDate == <<>>
EndDate(now) == <<now>>

\* model_args for the cardinality fields; KeyError on a field the mapper
\* did not produce.
RECURSIVE ModelArgs(_, _, _)
ModelArgs(cardinality_fields, processed_values, model_args) ==
    IF Len(cardinality_fields) = 0
    THEN [ok |-> TRUE, model_args |-> model_args]
    ELSE IF Head(cardinality_fields) \notin DOMAIN processed_values
    THEN [ok |-> FALSE, error |-> "MissingCardinalityValue"]
    ELSE ModelArgs(Tail(cardinality_fields), processed_values,
                   Put(model_args, Head(cardinality_fields),
                       processed_values[Head(cardinality_fields)]))

\* Mutant: the query does not look at the Subject.
FilterAnySubject(recs, creds, Model, subject_id, model_args) ==
    {i \in DOMAIN recs :
        /\ recs[i].model = Model
        /\ recs[i].end_date = NoEndDate
        /\ \A f \in DOMAIN model_args : recs[i].values[f] = model_args[f]}

\* Mutant: the query does not look at end_date.
FilterAnyEndDate(recs, creds, Model, subject_id, model_args) ==
    {i \in DOMAIN recs :
        /\ recs[i].model = Model
        /\ \E c \in recs[i].credentials : creds[c].subject = subject_id
        /\ \A f \in DOMAIN model_args : recs[i].values[f] = model_args[f]}

\* Model.objects.filter(credentials__subject__id=..., end_date=None,
\* **cardinality values).distinct(): the ids of the matching rows.
Filter(recs, creds, Model, subject_id, model_args) ==
    {i \in DOMAIN recs :
        /\ recs[i].model = Model
        /\ recs[i].end_date = NoEndDate
        /\ \E c \in recs[i].credentials : creds[c].subject = subject_id
        /\ \A f \in DOMAIN model_args : recs[i].values[f] = model_args[f]}

\* Mutant: the oldest match is taken.
FirstOldest(matches) == CHOOSE i \in matches : \A j \in matches : i <= j

\* order_by("-create_timestamp")[0]: rows are created in id order.
First(matches) == CHOOSE i \in matches : \A j \in matches : j <= i

\* Mutant: the other matches are left current.
RetireNone(recs, others, now) == recs

\* query.exclude(pk=model.id).update(end_date=timezone.now())
Retire(recs, others, now) ==
    [i \in DOMAIN recs |->
        IF i \in others THEN [recs[i] EXCEPT !.end_date = EndDate(now)]
        ELSE recs[i]]

\* for value in processed_values: setattr(model, value, ...)
SetAttrs(values, processed_values) ==
    [f \in FieldNames |->
        IF f \in DOMAIN processed_values THEN processed_values[f]
        ELSE values[f]]

\* Model(): a new row object with every column unset.
NewModel(Model) ==
    [model |-> Model, values |-> [f \in FieldNames |-> NULL],
     end_date |-> NoEndDate, credentials |-> {}]

\* Mutant: the credential replaces the row's associations.
SaveAndReplace(recs, id, credential_id, processed_values) ==
    [recs EXCEPT ![id].values = SetAttrs(@, processed_values),
                 ![id].credentials = {credential_id}]

\* Row id with the given processed values set and the credential attached.
SaveAndAssociate(recs, id, credential_id, processed_values) ==
    [recs EXCEPT ![id].values = SetAttrs(@, processed_values),
                 ![id].credentials = @ \cup {credential_id}]

\* Mutant: the row found by the query is ignored and a new one is created.
UpsertCreateOnly(recs, matches, Model, credential_id, processed_values, now) ==
    SaveAndAssociate(Append(recs, NewModel(Model)), Len(recs) + 1,
                     credential_id, processed_values)

\* Lines 364-385 for one rule, given the rows the query matches: retire
\* the matches other than the first, create the row if there was none, set
\* the fields, save, associate the credential.
Upsert(recs, matches, Model, credential_id, processed_values, now) ==
    IF matches = {}
    THEN SaveAndAssociate(Append(recs, NewModel(Model)), Len(recs) + 1,
                          credential_id, processed_values)
    ELSE SaveAndAssociate(Retire(recs, matches \ {First(matches)}, now),
                          First(matches), credential_id, processed_values)

(* ------------------------------------------------------------------ *)
(* populate_application_database                                        *)
(* ------------------------------------------------------------------ *)

\* Mutant: a Subject row is created on every call.
GetOrCreateAlways(subs, source_id) ==
    [subjects |-> Append(subs, source_id), id |-> Len(subs) + 1]

\* Subject.objects.get_or_create(source_id=source_id)
GetOrCreate(subs, source_id) ==
    IF \E i \in DOMAIN subs : subs[i] = source_id
    THEN [subjects |-> subs,
          id |-> CHOOSE i \in DOMAIN subs : subs[i] = source_id]
    ELSE [subjects |-> Append(subs, source_id), id |-> Len(subs) + 1]

\* Mutant: a claim whose name and value are already stored is not written
\* again.
RECURSIVE CreateClaimsOnce(_, _, _, _)
CreateClaimsOnce(cl, credential, credential_id, attributes) ==
    IF Len(attributes) = 0 THEN cl
    ELSE CreateClaimsOnce(
            IF \E k \in DOMAIN cl :
                  /\ cl[k].name = Head(attributes)
                  /\ cl[k].value = GetAttr(credential, Head(attributes)).value
            THEN cl
            ELSE Append(cl, [credential |-> credential_id,
                             name |-> Head(attributes),
                             value |-> GetAttr(credential,
                                               Head(attributes)).value]),
            credential, credential_id, Tail(attributes))

\* Mutant: no Claim rows are written.
CreateClaimsNone(cl, credential, credential_id, attributes) == cl

\* for claim_attribute in claim_attributes: Claim.objects.create(...)
RECURSIVE CreateClaims(_, _, _, _)
CreateClaims(cl, credential, credential_id, attributes) ==
    IF Len(attributes) = 0 THEN cl
    ELSE CreateClaims(
            Append(cl, [credential |-> credential_id,
                        name |-> Head(attributes),
                        value |-> GetAttr(credential, Head(attributes)).value]),
            credential, credential_id, Tail(attributes))

\* How the loop over processor_config ends: the rows, and per completed
\* rule what the query returned and the row that was saved.
Ended(ok, error, recs, trace) ==
    [ok |-> ok, error |-> error, records |-> recs, trace |-> trace]

\* cardinality_fields = model_mapper.get("cardinality_fields") or []
CardinalityFields(model_mapper) ==
    IF "cardinality_fields" \in DOMAIN model_mapper
    THEN model_mapper["cardinality_fields"] ELSE <<>>

\* The loop over processor_config: per rule, the model lookup (ApplyRules),
\* the field loop (AfterFields), the cardinality filter (AfterModelArgs),
\* the query and the upsert (AfterQuery).  The first failing rule ends the
\* loop; what earlier rules wrote stays written.
RECURSIVE ApplyRules(_, _, _, _, _, _, _)
RECURSIVE AfterFields(_, _, _, _, _, _, _, _)
RECURSIVE AfterModelArgs(_, _, _, _, _, _, _, _, _)
RECURSIVE AfterQuery(_, _, _, _, _, _, _, _, _, _)

AfterQuery(recs, creds, credential, subject_id, credential_id, processor_config, trace, processed_values, model_args, matches) ==
    ApplyRules(
        Upsert(recs, matches, Head(processor_config)["model"], credential_id,
               processed_values, credential_id),
        creds, credential, subject_id, credential_id, Tail(processor_config),
        Append(trace,
               [model |-> Head(processor_config)["model"],
                model_args |-> model_args,
                processed_values |-> processed_values,
                matches |-> matches,
                saved |-> IF matches = {} THEN Len(recs) + 1
                          ELSE First(matches)]))

AfterModelArgs(recs, creds, credential, subject_id, credential_id, processor_config, trace, processed_values, ma) ==
    IF ~ma.ok THEN Ended(FALSE, ma.error, recs, trace)
    ELSE AfterQuery(recs, creds, credential, subject_id, credential_id,
                    processor_config, trace, processed_values, ma.model_args,
                    Filter(recs, creds, Head(processor_config)["model"],
                           subject_id, ma.model_args))

AfterFields(recs, creds, credential, subject_id, credential_id, processor_config, trace, pv) ==
    IF ~pv.ok THEN Ended(FALSE, pv.error, recs, trace)
    ELSE AfterModelArgs(recs, creds, credential, subject_id, credential_id,
                        processor_config, trace, pv.processed_values,
                        ModelArgs(CardinalityFields(Head(processor_config)),
                                  pv.processed_values, <<>>))

ApplyRules(recs, creds, credential, subject_id, credential_id, processor_config, trace) ==
    IF Len(processor_config) = 0
    THEN Ended(TRUE, "", recs, trace)
    ELSE IF Head(processor_config)["model"] \notin SUPPORTED_MODELS_MAPPING
    THEN Ended(FALSE, "UnsupportedModel", recs, trace)
    ELSE AfterFields(recs, creds, credential, subject_id, credential_id,
                     processor_config, trace,
                     ProcessFields(credential,
                                   Head(processor_config)["fields"], <<>>))

\* The database after the call, and how the call ended.
Populated(subs, creds, cl, r) ==
    [subjects |-> subs, credentials |-> creds, claims |-> cl,
     records |-> r.records, ok |-> r.ok, error |-> r.error,
     trace |-> r.trace]

\* Lines 221-387, with the Subject, the Credential and its Claims written.
ProcessorConfig(subs, creds, cl, recs, credential, credential_type, subject_id) ==
    IF Len(credential_type.processor_config) = 0
    THEN Populated(subs, creds, cl, Ended(TRUE, "", recs, <<>>))
    ELSE Populated(subs, creds, cl,
                   ApplyRules(recs, creds, credential, subject_id, Len(creds),
                              credential_type.processor_config, <<>>))

\* Lines 210-387, with the Subject read or created.
CreateCredential(db, credential, credential_type, sub) ==
    ProcessorConfig(
        sub.subjects,
        Append(db.credentials,
               [subject |-> sub.id, credential_type |-> credential_type.id]),
        CreateClaims(db.claims, credential, Len(db.credentials) + 1,
                     claim_attributes(credential)),
        db.records, credential, credential_type, sub.id)

\* CredentialManager.populate_application_database as a function of the
\* database: the rows after the call, and how the call ended.
PopulateDb(db, credential, credential_type, source_id) ==
    CreateCredential(db, credential, credential_type,
                     GetOrCreate(db.subjects, source_id))

(* ------------------------------------------------------------------ *)
(* Configurations and payloads                                          *)
(* ------------------------------------------------------------------ *)

Did == "ABC"
TestSchema == <<Did, "Test", "1.0">>

Payload(legal_name, email) ==
    [schema_id |-> TestSchema,
     keys |-> <<"email", "legal_name">>,
     values |-> [email |-> [raw |-> email],
                 legal_name |-> [raw |-> legal_name]]]

FromClaim(name) == [input |-> name, from |-> "claim"]
FromValue(v) == [input |-> v, from |-> "value"]

\* f1 <- claim legal_name, f2 <- claim email
ClaimFields ==
    << [field |-> "f1", data |-> FromClaim("legal_name")],
       [field |-> "f2", data |-> FromClaim("email")] >>

\* f1 <- claim legal_name, f2 <- the literal "B"
LiteralFields ==
    << [field |-> "f1", data |-> FromClaim("legal_name")],
       [field |-> "f2", data |-> FromValue("B")] >>

Rule(model, fields, cardinality_fields) ==
    [model |-> model, fields |-> fields,
     cardinality_fields |-> cardinality_fields]

CredentialType(id, processor_config) ==
    [id |-> id, source_claim |-> "legal_name",
     processor_config |-> processor_config]

\* Versions of the issuer's configuration.
ByF1 == CredentialType("byF1", << Rule("contact", ClaimFields, <<"f1">>) >>)
ByF2 == CredentialType("byF2", << Rule("contact", ClaimFields, <<"f2">>) >>)
NoRules == CredentialType("noRules", << >>)
TwoRules ==
    CredentialType("twoRules",
                   << Rule("contact", ClaimFields, <<"f1">>),
                      Rule("contact", LiteralFields, <<"f2">>) >>)
TwoKinds ==
    CredentialType("twoKinds",
                   << Rule("contact", ClaimFields, <<"f1">>),
                      Rule("name", ClaimFields, <<"f2">>) >>)

CredentialTypes == {ByF1, ByF2, NoRules, TwoRules, TwoKinds}
Payloads == {Payload("A", "A"), Payload("B", "A")}
SourceIds == {"source_id", "Acme"}

\* Configurations that fail in the mapping.
WidgetRule == Rule("widget", ClaimFields, <<"f1">>)
NoCardinalityValueRule ==
    Rule("contact", << [field |-> "f1", data |-> FromClaim("legal_name")] >>,
         <<"f2">>)

Unsupported == CredentialType("unsupported", << WidgetRule >>)
NoFrom ==
    CredentialType("noFrom",
        << Rule("contact",
                << [field |-> "f1", data |-> [input |-> "legal_name"]] >>,
                <<"f1">>) >>)
BadFrom ==
    CredentialType("badFrom",
        << Rule("contact",
                << [field |-> "f1",
                    data |-> [input |-> "legal_name", from |-> "claims"]] >>,
                <<"f1">>) >>)
NoSuchClaim ==
    CredentialType("noSuchClaim",
        << Rule("contact",
                << [field |-> "f1", data |-> FromClaim("phone")] >>,
                <<"f1">>) >>)
NoSuchFunction ==
    CredentialType("noSuchFunction",
        << Rule("contact",
                << [field |-> "f1",
                    data |-> [input |-> "legal_name", from |-> "claim",
                              processor |->
                                  << <<"string_helpers", "missing">> >>]] >>,
                <<"f1">>) >>)
NoCardinalityValue ==
    CredentialType("noCardinalityValue", << NoCardinalityValueRule >>)
ThenUnsupported ==
    CredentialType("thenUnsupported",
        << Rule("contact", ClaimFields, <<"f2">>), WidgetRule >>)
ThenNoCardinalityValue ==
    CredentialType("thenNoCardinalityValue",
        << Rule("contact", ClaimFields, <<"f2">>), NoCardinalityValueRule >>)

FailingTypes ==
    {Unsupported, NoFrom, BadFrom, NoSuchClaim, NoSuchFunction,
     NoCardinalityValue, ThenUnsupported, ThenNoCardinalityValue}

\* Errors raised while the rules of a configuration are applied.
MappingErrors ==
    {"UnsupportedModel", "MissingInputOrFrom", "UnsupportedFrom",
     "AttributeError", "NoProcessorModule", "NoProcessorFunction",
     "MissingCardinalityValue"}

\* A configuration whose source_claim is the name of a member of the
\* Credential view and of no claim of the payloads.
SourceSchemaName ==
    [id |-> "sourceSchemaName", source_claim |-> "schema_name",
     processor_config |-> << Rule("contact", ClaimFields, <<"f1">>) >>]

MemberSourceTypes == {SourceSchemaName}

CredentialTypeById(id) ==
    CHOOSE ct \in CredentialTypes \cup FailingTypes \cup MemberSourceTypes :
        ct.id = id

\* Rows of the Issuer and Schema tables.
Issuers == {Did}
Schemas == {TestSchema}

\* No CredentialType row links the schema and the issuer.
NoCredentialType == [id |-> "none"]

\* Payloads of an unregistered issuer, of an unregistered schema version,
\* and without the source claim.
UnknownIssuerPayload ==
    [Payload("A", "A") EXCEPT !.schema_id = <<"XYZ", "Test", "1.0">>]
UnknownSchemaPayload ==
    [Payload("A", "A") EXCEPT !.schema_id = <<Did, "Test", "2.0">>]
NoSourceClaimPayload ==
    [schema_id |-> TestSchema, keys |-> <<"email">>,
     values |-> [email |-> [raw |-> "A"]]]

\* What process() is called with: the payload and the CredentialType row
\* stored for its schema and issuer at that time.
ProcessInputs ==
    {[credential_data |-> cd, credential_type |-> ByF1] :
        cd \in Payloads \cup {UnknownIssuerPayload, UnknownSchemaPayload,
                              NoSourceClaimPayload}}
    \cup {[credential_data |-> Payload("A", "A"),
           credential_type |-> NoCredentialType]}
    \cup {[credential_data |-> Payload("A", "A"), credential_type |-> ct] :
            ct \in FailingTypes \cup MemberSourceTypes}

(* ------------------------------------------------------------------ *)
(* State                                                                *)
(* ------------------------------------------------------------------ *)

VARIABLES
    subjects,     \* Subject rows: source_id, indexed by id
    credentials,  \* Credential rows: [subject, credential_type]
    claims,       \* Claim rows: [credential, name, value]
    records,      \* Name/Address/Person/Contact rows
    result,       \* how the last call ended
    mapping,      \* one run of the field mapping of a rule: input and output
    wallet,       \* credentials stored in the holder's wallet
    workers,      \* per worker: where it is in populate_application_database
    decoded,      \* one read of an attribute of a Credential view
    proof         \* a ProofManager: its filters and its construct_proof call

vars ==
    <<subjects, credentials, claims, records, result, mapping, wallet,
      workers, decoded, proof>>

Workers == 1..NumWorkers
Idle == [pc |-> "idle"]

\* No attribute of a Credential view has been read.
NotDecoded == [stage |-> "none"]

\* ProofManager.__init__: self.filters = []
NewProofManager == [stage |-> "new", filters |-> <<>>]

Db == [subjects |-> subjects, credentials |-> credentials,
       claims |-> claims, records |-> records]

Init ==
    /\ subjects = <<>>
    /\ credentials = <<>>
    /\ claims = <<>>
    /\ records = <<>>
    /\ result = [op |-> "none", ok |-> TRUE, error |-> "", trace |-> <<>>,
                 credential_data |-> <<>>, credential_type |-> "",
                 source_id |-> ""]
    /\ mapping = [stage |-> "none"]
    /\ wallet = <<>>
    /\ workers = [w \in Workers |-> Idle]
    /\ decoded = NotDecoded
    /\ proof = NewProofManager

\* The rows a call wrote are in the database, however the call ends.
Written(r) ==
    /\ subjects' = r.subjects
    /\ credentials' = r.credentials
    /\ claims' = r.claims
    /\ records' = r.records

\* The call returns or raises: the rows it wrote are in the database.
Return(op, r, ok, error, credential_data, credential_type, source_id) ==
    /\ Written(r)
    /\ result' = [op |-> op, ok |-> ok, error |-> error, trace |-> r.trace,
                  credential_data |-> credential_data,
                  credential_type |-> credential_type.id,
                  source_id |-> source_id]

PopulateReturn(r, credential_data, credential_type, source_id) ==
    Return("populate", r, r.ok, r.error, credential_data, credential_type,
           source_id)

\* A call of populate_application_database(credential_type, source_id) on
\* a manager constructed for credential_data.
Populate(credential_data, credential_type, source_id) ==
    /\ Len(credentials) < MaxCreds
    /\ PopulateReturn(PopulateDb(Db, Credential(credential_data),
                                 credential_type, source_id),
                      credential_data, credential_type, source_id)
    /\ UNCHANGED <<mapping, wallet, workers, decoded, proof>>

\* What the wallet does with a store_cred call: it stores the credential,
\* or fails with a transient network or ledger error, or rejects the
\* credential as malformed.
WalletAnswers == {"ok", "transient", "malformed"}

\* The answers the wallet would give to successive store_cred calls for
\* one credential: it responds after at most one transient failure.
WalletScripts == { <<"ok">>, <<"malformed">>, <<"transient", "ok">> }

\* store(legal_entity_id): one holder.store_cred(json, metadata) call in
\* the wallet of legal_entity_id; the wallet stores the credential or the
\* call raises.
Store(w, legal_entity_id, credential, answer) ==
    IF answer = "ok"
    THEN [ok |-> TRUE, error |-> "",
          wallet |-> Append(w, [holder |-> legal_entity_id,
                                credential |-> credential._raw])]
    ELSE [ok |-> FALSE, error |-> "WalletError", wallet |-> w]

\* The source_id argument that process() passes on: the string literal
\* "source_id", not the value read from the source claim.
PopulateSourceId(source_id) == "source_id"

\* process() raises before anything is written.
Failed(credential_data, credential_type, error) ==
    /\ result' = [op |-> "process", ok |-> FALSE, error |-> error,
                  trace |-> <<>>,
                  credential_data |-> credential_data,
                  credential_type |-> credential_type.id,
                  source_id |-> ""]
    /\ UNCHANGED <<subjects, credentials, claims, records, wallet>>

\* Mutant: the wallet is called whether or not the population succeeded.
StoreRegardless(r, st, credential_data, credential_type, source_id, answers) ==
    /\ Written(r)
    /\ result' = [op |-> "process", ok |-> r.ok /\ st.ok,
                  error |-> IF r.ok THEN st.error ELSE r.error,
                  trace |-> r.trace,
                  credential_data |-> credential_data,
                  credential_type |-> credential_type.id,
                  source_id |-> source_id,
                  answers |-> answers,
                  store_calls |-> 1]
    /\ wallet' = st.wallet

\* Lines 198-202: the wallet is called once the database is populated; an
\* exception of populate_application_database ends process() before it.
StoreAfterPopulate(r, st, credential_data, credential_type, source_id, answers) ==
    /\ Written(r)
    /\ result' = [op |-> "process", ok |-> r.ok /\ st.ok,
                  error |-> IF r.ok THEN st.error ELSE r.error,
                  trace |-> r.trace,
                  credential_data |-> credential_data,
                  credential_type |-> credential_type.id,
                  source_id |-> source_id,
                  answers |-> answers,
                  store_calls |-> IF r.ok THEN 1 ELSE 0]
    /\ wallet' = IF r.ok THEN st.wallet ELSE wallet

\* Lines 187-202, with the source claim read.
ProcessCredential(credential, credential_type, source, answers) ==
    IF ~source.ok
    THEN Failed(credential._raw, credential_type, "NoSourceClaim")
    ELSE StoreAfterPopulate(
            PopulateDb(Db, credential, credential_type,
                       PopulateSourceId(source.value)),
            Store(wallet, "source_id", credential, Head(answers)),
            credential._raw, credential_type, source.value, answers)

\* CredentialManager.process() on a manager constructed for
\* credential_data, with the answers the wallet would give.
Process(credential_data, credential_type, answers) ==
    /\ Len(credentials) < MaxCreds
    /\ IF origin_did(Credential(credential_data)) \notin Issuers
       THEN Failed(credential_data, credential_type, "IssuerDoesNotExist")
       ELSE IF credential_data.schema_id \notin Schemas
       THEN Failed(credential_data, credential_type, "SchemaDoesNotExist")
       ELSE IF credential_type = NoCredentialType
       THEN Failed(credential_data, credential_type,
                   "CredentialTypeDoesNotExist")
       ELSE ProcessCredential(
                Credential(credential_data), credential_type,
                GetAttr(Credential(credential_data),
                        credential_type.source_claim),
                answers)
    /\ UNCHANGED <<mapping, workers, decoded, proof>>

NextProcess ==
    \E in \in ProcessInputs, answers \in WalletScripts :
        Process(in.credential_data, in.credential_type, answers)

SpecProcess == Init /\ [][NextProcess]_vars

Next ==
    \E credential_data \in Payloads, credential_type \in CredentialTypes,
       source_id \in SourceIds :
        Populate(credential_data, credential_type, source_id)

Spec == Init /\ [][Next]_vars

(* ------------------------------------------------------------------ *)
(* Concurrent ingestion                                                 *)
(* ------------------------------------------------------------------ *)

\* populate_application_database runs without a transaction or a lock:
\* each ORM call is a statement of its own, and statements of different
\* workers interleave.

\* Lines 228-346 for rule number rule: the worker either fails or holds
\* the processed values and the filter, about to run the query.
StartRule(worker, rule) ==
    LET credential_type == CredentialTypeById(worker.credential_type)
        model_mapper == credential_type.processor_config[rule]
        model_name == model_mapper["model"]
        cardinality_fields ==
            IF "cardinality_fields" \in DOMAIN model_mapper
            THEN model_mapper["cardinality_fields"] ELSE <<>>
        pv == ProcessFields(Credential(worker.credential_data),
                            model_mapper["fields"], <<>>)
        ma == IF pv.ok
              THEN ModelArgs(cardinality_fields, pv.processed_values, <<>>)
              ELSE pv
    IN  IF model_name \notin SUPPORTED_MODELS_MAPPING
        THEN [ok |-> FALSE, error |-> "UnsupportedModel"]
        ELSE IF ~ma.ok THEN [ok |-> FALSE, error |-> ma.error]
        ELSE [ok |-> TRUE,
              worker |-> [pc |-> "query",
                          credential_data |-> worker.credential_data,
                          credential_type |-> worker.credential_type,
                          source_id |-> worker.source_id,
                          subject_id |-> worker.subject_id,
                          credential_id |-> worker.credential_id,
                          rule |-> rule,
                          model_name |-> model_name,
                          processed_values |-> pv.processed_values,
                          model_args |-> ma.model_args,
                          model |-> [id |-> 0, row |-> NewModel(model_name)]]]

\* The call of worker w returns or raises.
Finish(w, worker, ok, error) ==
    /\ workers' = [workers EXCEPT ![w] = Idle]
    /\ result' = [op |-> "populate", ok |-> ok, error |-> error,
                  trace |-> <<>>,
                  credential_data |-> worker.credential_data,
                  credential_type |-> worker.credential_type,
                  source_id |-> worker.source_id]

\* Lines 208-224: the Subject, the Credential and the Claims, then the
\* mapping of the first rule.
Begin(w, credential_data, credential_type, source_id) ==
    /\ workers[w].pc = "idle"
    /\ Len(credentials) < MaxCreds
    /\ LET sub == GetOrCreate(subjects, source_id)
           credential_id == Len(credentials) + 1
           credential == Credential(credential_data)
           worker == [credential_data |-> credential_data,
                      credential_type |-> credential_type.id,
                      source_id |-> source_id,
                      subject_id |-> sub.id,
                      credential_id |-> credential_id]
       IN  /\ subjects' = sub.subjects
           /\ credentials' = Append(credentials,
                                    [subject |-> sub.id,
                                     credential_type |-> credential_type.id])
           /\ claims' = CreateClaims(claims, credential, credential_id,
                                     claim_attributes(credential))
           /\ IF Len(credential_type.processor_config) = 0
              THEN Finish(w, worker, TRUE, "")
              ELSE LET st == StartRule(worker, 1)
                   IN  IF st.ok
                       THEN /\ workers' = [workers EXCEPT ![w] = st.worker]
                            /\ UNCHANGED result
                       ELSE Finish(w, worker, FALSE, st.error)
    /\ UNCHANGED <<records, mapping, wallet, decoded, proof>>

\* Line 366: model = query[0], the most recently created match as it is
\* stored now; IndexError when nothing matches.
Query(w) ==
    /\ workers[w].pc = "query"
    /\ LET worker == workers[w]
           matches == Filter(records, credentials, worker.model_name,
                             worker.subject_id, worker.model_args)
       IN  workers' =
             [workers EXCEPT ![w] =
                 IF matches = {}
                 THEN [worker EXCEPT !.pc = "save"]
                 ELSE [worker EXCEPT
                          !.pc = "retire",
                          !.model = [id |-> First(matches),
                                     row |-> records[First(matches)]]]]
    /\ UNCHANGED <<subjects, credentials, claims, records, result, mapping,
                   wallet, decoded, proof>>

\* Line 370: the UPDATE of the rows that match the filter now, but for the
\* row read by the query.
RetireOthers(w) ==
    /\ workers[w].pc = "retire"
    /\ LET worker == workers[w]
           matches == Filter(records, credentials, worker.model_name,
                             worker.subject_id, worker.model_args)
       IN  records' = Retire(records, matches \ {worker.model.id},
                             worker.credential_id)
    /\ workers' = [workers EXCEPT ![w].pc = "save"]
    /\ UNCHANGED <<subjects, credentials, claims, result, mapping, wallet,
                   decoded, proof>>

\* Lines 375-384: setattr for every processed value, then model.save():
\* an INSERT of the new row, or an UPDATE of every column of the row with
\* what the worker holds.
Save(w) ==
    /\ workers[w].pc = "save"
    /\ LET worker == workers[w]
           row == [worker.model.row EXCEPT
                      !.values = SetAttrs(@, worker.processed_values)]
       IN  IF worker.model.id = 0
           THEN /\ records' = Append(records, [row EXCEPT !.credentials = {}])
                /\ workers' = [workers EXCEPT
                                  ![w].pc = "add",
                                  ![w].model = [id |-> Len(records) + 1,
                                                row |-> row]]
           ELSE /\ records' =
                     [records EXCEPT ![worker.model.id] =
                         [row EXCEPT !.credentials =
                                         records[worker.model.id].credentials]]
                /\ workers' = [workers EXCEPT ![w].pc = "add"]
    /\ UNCHANGED <<subjects, credentials, claims, result, mapping, wallet,
                   decoded, proof>>

\* Line 385: model.credentials.add(credential), then the next rule.
Add(w) ==
    /\ workers[w].pc = "add"
    /\ LET worker == workers[w]
           credential_type == CredentialTypeById(worker.credential_type)
       IN  /\ records' = [records EXCEPT ![worker.model.id].credentials =
                                            @ \cup {worker.credential_id}]
           /\ IF worker.rule = Len(credential_type.processor_config)
              THEN Finish(w, worker, TRUE, "")
              ELSE LET st == StartRule(worker, worker.rule + 1)
                   IN  IF st.ok
                       THEN /\ workers' = [workers EXCEPT ![w] = st.worker]
                            /\ UNCHANGED result
                       ELSE Finish(w, worker, FALSE, st.error)
    /\ UNCHANGED <<subjects, credentials, claims, mapping, wallet, decoded,
                   proof>>

\* Configurations and payloads of the concurrent ingestions.
ConcurrentTypes == {ByF1, ByF2, NoRules, ThenUnsupported}

NextConcurrent ==
    \E w \in Workers :
        \/ \E credential_data \in Payloads,
              credential_type \in ConcurrentTypes :
                Begin(w, credential_data, credential_type, "source_id")
        \/ Query(w)
        \/ RetireOthers(w)
        \/ Save(w)
        \/ Add(w)

SpecConcurrent == Init /\ [][NextConcurrent]_vars

(* ------------------------------------------------------------------ *)
(* The field mapping on its own                                         *)
(* ------------------------------------------------------------------ *)

ProcessorRefs ==
    { <<"string_helpers", "rotate">>, <<"string_helpers", "collapse">>,
      <<"string_helpers", "missing">>, <<"no_module", "rotate">> }

ProcessorLists == UNION {[1..n -> ProcessorRefs] : n \in 0..MaxPipeline}

\* Field specifications: a literal or the claim legal_name, without a
\* processor list or with any list of up to MaxPipeline references.
FieldSpecs ==
    LET bases == {FromValue(v) : v \in RawValues} \cup {FromClaim("legal_name")}
    IN  bases \cup
        {[input |-> b["input"], from |-> b["from"], processor |-> p] :
            b \in bases, p \in ProcessorLists}

MappingPayloads == {Payload(v, "A") : v \in RawValues}

\* The configuration whose mapping is run: one rule with one field, which
\* is also its cardinality field.
MappingType(field_data) ==
    CredentialType("mapping",
        << Rule("contact", << [field |-> "f1", data |-> field_data] >>,
                <<"f1">>) >>)

InitMapping ==
    /\ subjects = <<>>
    /\ credentials = <<>>
    /\ claims = <<>>
    /\ records = <<>>
    /\ result = [op |-> "none", ok |-> TRUE, error |-> "", trace |-> <<>>,
                 credential_data |-> <<>>, credential_type |-> "",
                 source_id |-> ""]
    /\ wallet = <<>>
    /\ workers = [w \in Workers |-> Idle]
    /\ decoded = NotDecoded
    /\ proof = NewProofManager
    /\ \E cd \in MappingPayloads, fd \in FieldSpecs :
          /\ fd["from"] = "value" => cd = Payload("A", "A")
          /\ mapping = [stage |-> "input", credential_data |-> cd,
                        field_data |-> fd]

\* populate_application_database under MappingType(field_data) on the empty
\* store; mapping keeps what the field loop computed for the field.
MapRule ==
    /\ mapping.stage = "input"
    /\ PopulateReturn(
          PopulateDb(Db, Credential(mapping.credential_data),
                     MappingType(mapping.field_data), "source_id"),
          mapping.credential_data, MappingType(mapping.field_data),
          "source_id")
    /\ mapping' = [stage |-> "done",
                   credential_data |-> mapping.credential_data,
                   field_data |-> mapping.field_data,
                   field |-> ProcessField(Credential(mapping.credential_data),
                                          mapping.field_data)]
    /\ UNCHANGED <<wallet, workers, decoded, proof>>

NextMapping == MapRule

SpecMapping == InitMapping /\ [][NextMapping]_vars

(* ------------------------------------------------------------------ *)
(* The Credential view on its own                                       *)
(* ------------------------------------------------------------------ *)

\* Claim names of the payloads that are decoded, in payload order: two
\* that are not members of the Credential class and two that are.
AccessorClaimOrder == <<"email", "legal_name", "raw", "schema_name">>
AccessorClaimNames == {"email", "legal_name", "raw", "schema_name"}

IsPresent(names, n) == n \in names

\* The payload with the given claims, each with its raw value.
AccessorPayload(values) ==
    [schema_id |-> TestSchema,
     keys |-> SelectSeq(AccessorClaimOrder,
                        LAMBDA n : IsPresent(DOMAIN values, n)),
     values |-> [n \in DOMAIN values |-> [raw |-> values[n]]]]

AccessorPayloads ==
    {AccessorPayload(v) :
        v \in UNION {[D -> {"A", "B"}] : D \in SUBSET AccessorClaimNames}}

\* Credential(credential_data)
InitCredential ==
    /\ subjects = <<>>
    /\ credentials = <<>>
    /\ claims = <<>>
    /\ records = <<>>
    /\ result = [op |-> "none", ok |-> TRUE, error |-> "", trace |-> <<>>,
                 credential_data |-> <<>>, credential_type |-> "",
                 source_id |-> ""]
    /\ mapping = [stage |-> "none"]
    /\ wallet = <<>>
    /\ workers = [w \in Workers |-> Idle]
    /\ proof = NewProofManager
    /\ \E cd \in AccessorPayloads :
          decoded = [stage |-> "constructed", credential_data |-> cd]

\* getattr(credential, name) on the constructed view.
GetClaim(name) ==
    /\ decoded.stage = "constructed"
    /\ decoded' = [stage |-> "read",
                   credential_data |-> decoded.credential_data,
                   name |-> name,
                   outcome |-> GetAttr(Credential(decoded.credential_data),
                                       name)]
    /\ UNCHANGED <<subjects, credentials, claims, records, result, mapping,
                   wallet, workers, proof>>

NextCredential == \E name \in AccessorClaimNames : GetClaim(name)

SpecCredential == InitCredential /\ [][NextCredential]_vars

(* ------------------------------------------------------------------ *)
(* ProofManager                                                         *)
(* ------------------------------------------------------------------ *)

\* Filter = namedtuple("Filter", "claim_name claim_value")
ProofFilter(claim_name, claim_value) ==
    [claim_name |-> claim_name, claim_value |-> claim_value]

\* Python's empty dict.
EmptyDict == [k \in {} |-> NULL]

\* What holder.get_creds answers: per requested attribute name, the list
\* of candidate credentials, each with its wallet referent.
Referents == {"r1", "r2"}
Candidates == {[cred_info |-> [referent |-> r]] : r \in Referents}
CandidateLists == UNION {[1..n -> Candidates] : n \in 0..MaxCandidates}
AttrNames == {"email_attr", "name_attr"}
WalletReplies == UNION {[D -> CandidateLists] : D \in SUBSET AttrNames}

FilterNames == {"email", "phone"}
FilterValues == {"A", "B"}

\* Mutant: the last candidate offered is taken.
LastCandidate(candidates) == candidates[Len(candidates)]

\* credentials_for_proof_request["attrs"][claim_name][0]
FirstCandidate(candidates) == candidates[1]

\* The entry of requested_attributes for one attribute name.
RequestedAttribute(candidates) ==
    [revealed |-> TRUE,
     cred_id |-> FirstCandidate(candidates).cred_info.referent]

\* Lines 40-56, when every attribute has a candidate: the three dicts of
\* requested_credentials.  self.filters is not read.
RequestedCredentials(attrs) ==
    [self_attested_attributes |-> EmptyDict,
     requested_predicates |-> EmptyDict,
     requested_attributes |->
         [claim_name \in DOMAIN attrs |-> RequestedAttribute(attrs[claim_name])]]

\* ProofManager.add_filter(claim_name, claim_value)
AddFilter(claim_name, claim_value) ==
    /\ proof.stage = "new"
    /\ Len(proof.filters) < MaxFilters
    /\ proof' = [proof EXCEPT
                    !.filters = Append(@, ProofFilter(claim_name, claim_value))]
    /\ UNCHANGED <<subjects, credentials, claims, records, result, mapping,
                   wallet, workers, decoded>>

\* The wallet's answer without the attributes that have no candidate.
WithCandidates(attrs) ==
    [claim_name \in {n \in DOMAIN attrs : Len(attrs[n]) > 0} |->
        attrs[claim_name]]

\* Mutant: an attribute without candidates is left out of the payload.
ConstructProofSkipping(attrs) ==
    /\ proof.stage = "new"
    /\ proof' = [stage |-> "returned", filters |-> proof.filters,
                 attrs |-> attrs,
                 requested_credentials |->
                     RequestedCredentials(WithCandidates(attrs)),
                 create_proof |->
                     << RequestedCredentials(WithCandidates(attrs)) >>]
    /\ UNCHANGED <<subjects, credentials, claims, records, result, mapping,
                   wallet, workers, decoded>>

\* ProofManager.construct_proof() when the wallet answers attrs: [0] on
\* an empty candidate list raises IndexError before holder.create_proof is
\* reached; otherwise create_proof is called with requested_credentials
\* and its proof is returned.
ConstructProof(attrs) ==
    /\ proof.stage = "new"
    /\ proof' =
          IF \E claim_name \in DOMAIN attrs : Len(attrs[claim_name]) = 0
          THEN [stage |-> "raised", filters |-> proof.filters,
                attrs |-> attrs, error |-> "IndexError",
                create_proof |-> <<>>]
          ELSE [stage |-> "returned", filters |-> proof.filters,
                attrs |-> attrs,
                requested_credentials |-> RequestedCredentials(attrs),
                create_proof |-> << RequestedCredentials(attrs) >>]
    /\ UNCHANGED <<subjects, credentials, claims, records, result, mapping,
                   wallet, workers, decoded>>

NextProof ==
    \/ \E claim_name \in FilterNames, claim_value \in FilterValues :
          AddFilter(claim_name, claim_value)
    \/ \E attrs \in WalletReplies : ConstructProof(attrs)

SpecProof == Init /\ [][NextProof]_vars

(* ------------------------------------------------------------------ *)
(* Reading the store                                                    *)
(* ------------------------------------------------------------------ *)

Range(seq) == {seq[i] : i \in DOMAIN seq}

IsCurrent(rec) == rec.end_date = NoEndDate

\* A record belongs to a Subject through the Credentials attached to it.
BelongsTo(rec, creds, subject_id) ==
    \E c \in rec.credentials : creds[c].subject = subject_id

\* The current records of one kind and Subject that carry the given values.
CurrentWith(recs, creds, model, subject_id, values) ==
    {i \in DOMAIN recs :
        /\ recs[i].model = model
        /\ IsCurrent(recs[i])
        /\ BelongsTo(recs[i], creds, subject_id)
        /\ \A f \in DOMAIN values : recs[i].values[f] = values[f]}

CardinalityFieldsOf(rule) ==
    IF "cardinality_fields" \in DOMAIN rule
    THEN Range(rule["cardinality_fields"]) ELSE {}

LastCredential == Len(credentials)
LastSubject == credentials[LastCredential].subject
LastType == CredentialTypeById(result.credential_type)
LastRule == LastType.processor_config[Len(LastType.processor_config)]
LastUpsert == result.trace[Len(result.trace)]

\* The last call was a successful ingestion that ran at least one upsert.
Upserted ==
    /\ result.op \in {"populate", "process"}
    /\ result.ok
    /\ Len(result.trace) >= 1

\* The draft's values for the cardinality fields of its rule.
DraftKey(rule, upsert) ==
    [f \in CardinalityFieldsOf(rule) |-> upsert.processed_values[f]]

(* ------------------------------------------------------------------ *)
(* C1                                                                   *)
(* ------------------------------------------------------------------ *)

\* C1: after a successful ingestion under a one-rule configuration, exactly
\* one record of the rule's kind that belongs to the Subject and carries the
\* draft's cardinality-field values has a null end-date.
C1_ExactlyOneCurrentAfterUpsert ==
    (Upserted /\ Len(LastType.processor_config) = 1) =>
        Cardinality(CurrentWith(records, credentials, LastRule.model,
                                LastSubject,
                                DraftKey(LastRule, LastUpsert))) = 1

\* Several current records matched the filter of a one-rule upsert.
C1_Witness_SeveralMatched ==
    /\ Upserted
    /\ Len(LastType.processor_config) = 1
    /\ Cardinality(LastUpsert.matches) >= 2

(* ------------------------------------------------------------------ *)
(* C2                                                                   *)
(* ------------------------------------------------------------------ *)

\* Every ingestion so far used the same one-rule configuration with
\* non-empty cardinality fields, for the same Subject.
FixedRuleHistory ==
    /\ Len(credentials) >= 1
    /\ \A c \in DOMAIN credentials :
          /\ credentials[c].credential_type = credentials[1].credential_type
          /\ credentials[c].subject = credentials[1].subject
    /\ LET ct == CredentialTypeById(credentials[1].credential_type)
       IN  /\ Len(ct.processor_config) = 1
           /\ CardinalityFieldsOf(ct.processor_config[1]) # {}

FixedRule == CredentialTypeById(credentials[1].credential_type).processor_config[1]

\* C2: under one fixed rule with non-empty cardinality fields and one
\* Subject, from an empty store, no two current records of the rule's kind
\* carry the same cardinality-value tuple.
C2_AtMostOneCurrentPerTuple ==
    FixedRuleHistory =>
        \A i, j \in DOMAIN records :
            ( /\ records[i].model = records[j].model
              /\ IsCurrent(records[i]) /\ IsCurrent(records[j])
              /\ \A f \in CardinalityFieldsOf(FixedRule) :
                    records[i].values[f] = records[j].values[f] )
            => i = j

\* Two drafts of the fixed rule that differ only in a non-cardinality field
\* were upserted into the same record.
C2_Witness_Repeated ==
    /\ FixedRuleHistory
    /\ \E i \in DOMAIN records :
          \E c, d \in records[i].credentials :
            \E k, l \in DOMAIN claims :
              /\ claims[k].credential = c /\ claims[l].credential = d
              /\ claims[k].name = claims[l].name
              /\ claims[k].value # claims[l].value

(* ------------------------------------------------------------------ *)
(* C4                                                                   *)
(* ------------------------------------------------------------------ *)

\* Records i and j share a value combination under the given field set.
SameCombination(recs, i, j, fields) ==
    /\ recs[i].model = recs[j].model
    /\ \A f \in fields : recs[i].values[f] = recs[j].values[f]

\* C4 as stated: after a successful ingestion, reading every record of the
\* Subject and kind under the cardinality-field set of the last upsert, no
\* value combination has two current records.
C4_Original_OneCurrentPerCombination ==
    Upserted =>
        \A i, j \in DOMAIN records :
            ( /\ records[i].model = LastRule.model
              /\ BelongsTo(records[i], credentials, LastSubject)
              /\ BelongsTo(records[j], credentials, LastSubject)
              /\ IsCurrent(records[i]) /\ IsCurrent(records[j])
              /\ SameCombination(records, i, j, CardinalityFieldsOf(LastRule)) )
            => i = j

\* C4 amended: after a successful ingestion, for the value combination of
\* the last draft under the cardinality-field set of its rule, the one
\* current record is the saved one, which is the most recently created of
\* the records that matched (or a new record when none matched), and every
\* other record that matched has a non-null end-date.
C4_LastCombinationCollapsed ==
    Upserted =>
        /\ CurrentWith(records, credentials, LastRule.model, LastSubject,
                       DraftKey(LastRule, LastUpsert)) = {LastUpsert.saved}
        /\ \A i \in LastUpsert.matches :
              /\ i <= LastUpsert.saved
              /\ i # LastUpsert.saved => ~IsCurrent(records[i])
        /\ LastUpsert.matches = {} => LastUpsert.saved = Len(records)

\* A changed cardinality-field set made several records match, and the
\* older ones were retired.
C4_Witness_Collapsed ==
    /\ Upserted
    /\ Cardinality(LastUpsert.matches) >= 2
    /\ \E c \in DOMAIN credentials :
          credentials[c].credential_type # result.credential_type

(* ------------------------------------------------------------------ *)
(* C7                                                                   *)
(* ------------------------------------------------------------------ *)

ClaimsOf(cl, c) ==
    {[name |-> cl[k].name, value |-> cl[k].value] :
        k \in {x \in DOMAIN cl : cl[x].credential = c}}

\* This step ingests, successfully, the payload that the step before it
\* ingested successfully, for the same Subject and under the same
\* configuration, whose rules all have cardinality fields.
Reingestion ==
    /\ result.op = "populate" /\ result.ok
    /\ result'.op = "populate" /\ result'.ok
    /\ Len(credentials') = Len(credentials) + 1
    /\ result'.credential_data = result.credential_data
    /\ result'.credential_type = result.credential_type
    /\ result'.source_id = result.source_id
    /\ Len(LastType.processor_config) >= 1
    /\ \A r \in Range(LastType.processor_config) :
          CardinalityFieldsOf(r) # {}

\* The step leaves every record as it was, but for the new Credential in
\* the associations of records that stay current.
SatelliteIdempotent ==
    /\ Len(records') = Len(records)
    /\ \A i \in DOMAIN records :
          /\ records'[i].end_date = records[i].end_date
          /\ records'[i].values = records[i].values
          /\ records'[i].model = records[i].model
          /\ \/ records'[i].credentials = records[i].credentials
             \/ /\ IsCurrent(records[i])
                /\ records'[i].credentials =
                      records[i].credentials \cup {Len(credentials')}

\* No two rules of the configuration write the same record kind.
DistinctKinds(credential_type) ==
    \A i, j \in DOMAIN credential_type.processor_config :
        credential_type.processor_config[i].model =
            credential_type.processor_config[j].model => i = j

\* C7 as stated: re-ingesting an identical payload under an unchanged
\* configuration with non-empty cardinality fields creates no record, sets
\* no end-date, changes no field value and only adds the new Credential to
\* the associations.
C7_Original_ReingestIdempotent ==
    [][Reingestion => SatelliteIdempotent]_vars

\* C7 amended: the same, for a configuration whose rules write pairwise
\* distinct record kinds.
C7_ReingestIdempotentDistinctKinds ==
    [][(Reingestion /\ DistinctKinds(LastType)) => SatelliteIdempotent]_vars

\* An identical payload was ingested twice in a row under a configuration
\* with two rules of distinct kinds, and both credentials are attached to
\* the same records.
C7_Witness_Reingested ==
    /\ Len(credentials) >= 2
    /\ Upserted
    /\ Len(LastType.processor_config) = 2
    /\ DistinctKinds(LastType)
    /\ credentials[LastCredential - 1] = credentials[LastCredential]
    /\ ClaimsOf(claims, LastCredential - 1) = ClaimsOf(claims, LastCredential)
    /\ \A k \in DOMAIN result.trace :
          {LastCredential - 1, LastCredential}
              \subseteq records[result.trace[k].saved].credentials

(* ------------------------------------------------------------------ *)
(* C10                                                                  *)
(* ------------------------------------------------------------------ *)

\* The rows at positions Len(old)+1 .. Len(new) of a table.
Added(old, new) == SubSeq(new, Len(old) + 1, Len(new))

\* C10: an ingestion under a configuration without rules succeeds, adds
\* exactly one Credential and exactly one Claim per claim attribute of the
\* payload, with the claim's raw value, and leaves every SatelliteRecord
\* as it was.
C10_NoRulesNoRecords ==
    [][ ( /\ result'.op = "populate"
          /\ Len(credentials') # Len(credentials)
          /\ CredentialTypeById(result'.credential_type).processor_config
                = << >> )
        => /\ result'.ok
           /\ records' = records
           /\ Len(credentials') = Len(credentials) + 1
           /\ SubSeq(credentials', 1, Len(credentials)) = credentials
           /\ SubSeq(claims', 1, Len(claims)) = claims
           /\ LET new == Added(claims, claims')
                  data == result'.credential_data
              IN  /\ Len(new) = Len(data.keys)
                  /\ \A n \in Range(data.keys) :
                        Cardinality({k \in DOMAIN new :
                            /\ new[k].name = n
                            /\ new[k].credential = Len(credentials')
                            /\ new[k].value = data.values[n].raw}) = 1
      ]_vars

\* A credential was ingested under the configuration without rules while
\* current records of its Subject existed.
C10_Witness_NoRules ==
    /\ result.op = "populate"
    /\ result.ok
    /\ result.credential_type = "noRules"
    /\ result.trace = << >>
    /\ \E i \in DOMAIN records :
          IsCurrent(records[i])
          /\ BelongsTo(records[i], credentials, LastSubject)

(* ------------------------------------------------------------------ *)
(* C8                                                                   *)
(* ------------------------------------------------------------------ *)

\* The functions named by a processor list, applied first to last.
RECURSIVE ApplyInOrder(_, _)
ApplyInOrder(processor, v) ==
    IF Len(processor) = 0 THEN v
    ELSE ApplyInOrder(Tail(processor), CallFunction(Head(processor)[2], v))

\* The value a field specification starts from.
BaseValue(credential_data, field_data) ==
    IF field_data["from"] = "value" THEN field_data["input"]
    ELSE credential_data.values[field_data["input"]].raw

Mapped == mapping.stage = "done" /\ mapping.field.ok

\* C8: the value that leaves the pipeline is the base value with the
\* functions of the processor list applied in the declared order, each
\* once.
C8_PipelineInDeclaredOrder ==
    (Mapped /\ "processor" \in DOMAIN mapping.field_data) =>
        mapping.field.piped =
            ApplyInOrder(mapping.field_data["processor"],
                         BaseValue(mapping.credential_data,
                                   mapping.field_data))

\* A list of two functions for which the order of application matters.
C8_Witness_OrderMatters ==
    /\ Mapped
    /\ "processor" \in DOMAIN mapping.field_data
    /\ Len(mapping.field_data["processor"]) = 2
    /\ mapping.field.piped #
          ApplyInOrder(Reverse(mapping.field_data["processor"]),
                       BaseValue(mapping.credential_data,
                                 mapping.field_data))

(* ------------------------------------------------------------------ *)
(* C9                                                                   *)
(* ------------------------------------------------------------------ *)

\* C9: a value that leaves the transform chain as the string "None" is
\* null in the processed values, in the cardinality filter of the query and
\* in the saved record; no field is filtered or stored as the string
\* "None".
C9_NoneNormalized ==
    Mapped =>
        /\ result.ok /\ Len(result.trace) = 1
        /\ mapping.field.piped = "None" =>
              /\ mapping.field.value = NULL
              /\ LastUpsert.processed_values["f1"] = NULL
              /\ LastUpsert.model_args["f1"] = NULL
              /\ records[LastUpsert.saved].values["f1"] = NULL
        /\ LastUpsert.model_args["f1"] # "None"
        /\ \A i \in DOMAIN records : records[i].values["f1"] # "None"

\* "None" came out of a chain of several transforms applied to a claim,
\* and a record was saved.
C9_Witness_NoneAfterChain ==
    /\ Mapped
    /\ Len(records) = 1
    /\ mapping.field.piped = "None"
    /\ mapping.field_data["from"] = "claim"
    /\ "processor" \in DOMAIN mapping.field_data
    /\ Len(mapping.field_data["processor"]) >= 2

(* ------------------------------------------------------------------ *)
(* C11                                                                  *)
(* ------------------------------------------------------------------ *)

\* C11: the payload handed to create_proof has, in requested_attributes,
\* exactly the attribute names of the wallet's answer as keys, and for each
\* name the value {revealed: true, cred_id: r} where r is the referent of
\* the first candidate offered for that name.
C11_FirstCandidateRevealed ==
    proof.stage = "returned" =>
        /\ proof.create_proof = << proof.requested_credentials >>
        /\ DOMAIN proof.requested_credentials.requested_attributes
              = DOMAIN proof.attrs
        /\ \A n \in DOMAIN proof.attrs :
              proof.requested_credentials.requested_attributes[n] =
                  [revealed |-> TRUE,
                   cred_id |-> proof.attrs[n][1].cred_info.referent]

\* Two attributes were answered, one of them with two candidates of
\* different referents.
C11_Witness_SeveralCandidates ==
    /\ proof.stage = "returned"
    /\ DOMAIN proof.attrs = AttrNames
    /\ \E n \in DOMAIN proof.attrs :
          /\ Len(proof.attrs[n]) = 2
          /\ proof.attrs[n][1] # proof.attrs[n][2]

(* ------------------------------------------------------------------ *)
(* C12                                                                  *)
(* ------------------------------------------------------------------ *)

\* The claims added by add_filter, as a dict from claim name to the value
\* added last for it.
FiltersAsDict(filters) ==
    [n \in {filters[i].claim_name : i \in DOMAIN filters} |->
        filters[CHOOSE i \in DOMAIN filters :
                    /\ filters[i].claim_name = n
                    /\ \A j \in DOMAIN filters :
                          filters[j].claim_name = n => j <= i].claim_value]

\* C12: in the selection payload, requested_predicates is empty, and
\* self_attested_attributes is empty when add_filter was never called and
\* otherwise carries the claims added by add_filter.
C12_SelfAttestedFromFilters ==
    proof.stage = "returned" =>
        /\ DOMAIN proof.requested_credentials.requested_predicates = {}
        /\ proof.requested_credentials.self_attested_attributes
              = FiltersAsDict(proof.filters)

(* ------------------------------------------------------------------ *)
(* C13                                                                  *)
(* ------------------------------------------------------------------ *)

\* The errors of process() that match what is missing for a payload and
\* the CredentialType row id stored for it.
LookupErrors(credential_data, credential_type_id) ==
    {e \in {"IssuerDoesNotExist", "SchemaDoesNotExist",
            "CredentialTypeDoesNotExist", "NoSourceClaim"} :
        \/ e = "IssuerDoesNotExist" /\ credential_data.schema_id[1] \notin Issuers
        \/ e = "SchemaDoesNotExist" /\ credential_data.schema_id \notin Schemas
        \/ e = "CredentialTypeDoesNotExist" /\ credential_type_id = NoCredentialType.id
        \/ /\ e = "NoSourceClaim"
           /\ credential_type_id # NoCredentialType.id
           /\ CredentialTypeById(credential_type_id).source_claim
                 \notin DOMAIN credential_data.values}

\* C13: when no Issuer, no Schema or no CredentialType matches the
\* credential, or its payload lacks the configured source claim, process()
\* fails with the matching error, writes no Subject, Credential, Claim or
\* record and does not call the wallet.
C13_LookupFailureWritesNothing ==
    [][ ( /\ result'.op = "process"
          /\ LookupErrors(result'.credential_data,
                          result'.credential_type) # {} )
        => /\ ~result'.ok
           /\ result'.error \in LookupErrors(result'.credential_data,
                                              result'.credential_type)
           /\ UNCHANGED <<subjects, credentials, claims, records, wallet>>
      ]_vars

(* ------------------------------------------------------------------ *)
(* C14                                                                  *)
(* ------------------------------------------------------------------ *)

\* C14: an ingestion that fails because a rule names an unsupported record
\* type, or a cardinality field whose value the mapper did not produce,
\* leaves every record as it was, including the records that earlier rules
\* of the configuration target.
C14_FailedMappingLeavesRecords ==
    [][ ( /\ result'.op = "process"
          /\ result'.error \in {"UnsupportedModel", "MissingCardinalityValue"} )
        => records' = records ]_vars

(* ------------------------------------------------------------------ *)
(* C15                                                                  *)
(* ------------------------------------------------------------------ *)

\* C15: reading a claim name that is present in the payload's values
\* returns that claim's raw value, also when the name is that of a member
\* of the view; reading an absent claim name fails with the unknown-claim
\* error; and the read changes no stored state.
C15_AccessorReturnsRaw ==
    [][ decoded'.stage = "read" =>
          /\ IF decoded'.name \in DOMAIN decoded'.credential_data.values
             THEN /\ decoded'.outcome.ok
                  /\ decoded'.outcome.value =
                        decoded'.credential_data.values[decoded'.name].raw
             ELSE /\ ~decoded'.outcome.ok
                  /\ decoded'.outcome.error = "AttributeError"
          /\ UNCHANGED <<subjects, credentials, claims, records, wallet>>
      ]_vars

(* ------------------------------------------------------------------ *)
(* C16                                                                  *)
(* ------------------------------------------------------------------ *)

\* C16: an ingestion for a source identifier creates its Subject when no
\* Subject has that identifier and reuses the existing Subject otherwise;
\* no Subject is deleted or changed, and after every ingestion each source
\* identifier ingested so far has exactly one Subject.
C16_OneSubjectPerSourceId ==
    [][ (result'.op = "populate" /\ Len(credentials') = Len(credentials) + 1)
        => /\ subjects' = IF \E i \in DOMAIN subjects :
                                 subjects[i] = result'.source_id
                          THEN subjects
                          ELSE Append(subjects, result'.source_id)
           /\ subjects'[credentials'[Len(credentials')].subject]
                 = result'.source_id
           /\ \A i, j \in DOMAIN subjects' :
                 subjects'[i] = subjects'[j] => i = j
      ]_vars

\* Two source identifiers were ingested, one of them more than once.
C16_Witness_SubjectReused ==
    /\ Len(subjects) = 2
    /\ Len(credentials) = 3
    /\ \E s \in DOMAIN subjects :
          Cardinality({c \in DOMAIN credentials :
                          credentials[c].subject = s}) = 2

(* ------------------------------------------------------------------ *)
(* C17                                                                  *)
(* ------------------------------------------------------------------ *)

\* C17: no ingestion changes or deletes a Credential or Claim that exists,
\* and every successful ingestion adds exactly one Credential, owned by one
\* existing Subject, and exactly one Claim of that Credential per claim
\* attribute of its payload.
C17_OneCredentialAndItsClaims ==
    [][ /\ Len(credentials') >= Len(credentials)
        /\ SubSeq(credentials', 1, Len(credentials)) = credentials
        /\ Len(claims') >= Len(claims)
        /\ SubSeq(claims', 1, Len(claims)) = claims
        /\ (result'.op = "populate" /\ result'.ok) =>
              /\ Len(credentials') = Len(credentials) + 1
              /\ credentials'[Len(credentials')].subject \in DOMAIN subjects'
              /\ Len(Added(claims, claims'))
                    = Len(result'.credential_data.keys)
              /\ \A n \in Range(result'.credential_data.keys) :
                    Cardinality({k \in DOMAIN claims' :
                        /\ k > Len(claims)
                        /\ claims'[k].name = n
                        /\ claims'[k].credential = Len(credentials')}) = 1
      ]_vars

\* The payload of the last successful ingestion is identical to that of
\* the one before it, and each has its own Claims.
C17_Witness_IdenticalPayload ==
    /\ Len(credentials) >= 2
    /\ result.op = "populate" /\ result.ok
    /\ ClaimsOf(claims, LastCredential - 1) = ClaimsOf(claims, LastCredential)
    /\ Cardinality(ClaimsOf(claims, LastCredential))
          = Len(result.credential_data.keys)
    /\ Len(claims) = Len(credentials) * Len(result.credential_data.keys)

(* ------------------------------------------------------------------ *)
(* C18                                                                  *)
(* ------------------------------------------------------------------ *)

\* The first answer of the wallet that is not a transient failure.
FirstFinal(answers) ==
    CHOOSE n \in DOMAIN answers :
        /\ answers[n] # "transient"
        /\ \A m \in 1..(n - 1) : answers[m] = "transient"

\* C18: the wallet store call of an ingestion is repeated after a
\* transient failure and not after a malformed-credential failure, so that
\* the ingestion completes when the wallet responds after transient
\* failures, and ends with the wallet's first final answer.
C18_StoreRetriedUntilAnswer ==
    (result.op = "process" /\ "answers" \in DOMAIN result
     /\ result.store_calls >= 1) =>
        /\ result.store_calls = FirstFinal(result.answers)
        /\ result.ok = (result.answers[FirstFinal(result.answers)] = "ok")

(* ------------------------------------------------------------------ *)
(* C19                                                                  *)
(* ------------------------------------------------------------------ *)

\* The most recently created of a set of records.
Newest(ids) == CHOOSE i \in ids : \A j \in ids : j <= i

\* The record a draft gives when nothing matched.
FromDraft(model, draft, credential_id) ==
    [model |-> model,
     values |-> [f \in FieldNames |->
                    IF f \in DOMAIN draft THEN draft[f] ELSE NULL],
     end_date |-> NoEndDate,
     credentials |-> {credential_id}]

\* What an upsert of the draft does to the records, given the current
\* records m of the Subject and kind that carry the draft's cardinality
\* values.
ResolvedByMatchCount(model, draft, credential_id, m) ==
    IF m = {}
    THEN /\ Len(records') = Len(records) + 1
         /\ SubSeq(records', 1, Len(records)) = records
         /\ records'[Len(records')] = FromDraft(model, draft, credential_id)
    ELSE /\ Len(records') = Len(records)
         /\ \A i \in DOMAIN records :
               IF i = Newest(m)
               THEN /\ records'[i].model = records[i].model
                    /\ records'[i].end_date = NoEndDate
                    /\ records'[i].credentials =
                          records[i].credentials \cup {credential_id}
                    /\ \A f \in FieldNames :
                          records'[i].values[f] =
                              IF f \in DOMAIN draft THEN draft[f]
                              ELSE records[i].values[f]
               ELSE IF i \in m
               THEN /\ records'[i].end_date # NoEndDate
                    /\ records'[i].model = records[i].model
                    /\ records'[i].values = records[i].values
                    /\ records'[i].credentials = records[i].credentials
               ELSE records'[i] = records[i]

\* C19: an upsert with no current record matching its filter creates
\* exactly one record from the draft; with one or more matches it creates
\* none, overwrites the draft's fields on the most recently created match,
\* sets the end-date of every other match and leaves every record that did
\* not match as it was.
C19_UpsertByMatchCount ==
    [][ (result'.op = "populate" /\ result'.ok /\ Len(result'.trace) = 1)
        => ResolvedByMatchCount(
              CredentialTypeById(result'.credential_type)
                  .processor_config[1].model,
              result'.trace[1].processed_values,
              Len(credentials'),
              CurrentWith(records, credentials',
                  CredentialTypeById(result'.credential_type)
                      .processor_config[1].model,
                  credentials'[Len(credentials')].subject,
                  DraftKey(CredentialTypeById(result'.credential_type)
                               .processor_config[1],
                           result'.trace[1]))) ]_vars

\* A one-rule upsert matched several records, changed a field of the most
\* recently created one and left a current record of the same kind and
\* Subject that did not match.
C19_Witness_MatchedAndUnmatched ==
    /\ Upserted
    /\ Len(result.trace) = 1
    /\ Cardinality(LastUpsert.matches) >= 2
    /\ \E i \in DOMAIN records :
          /\ i \notin LastUpsert.matches
          /\ i # LastUpsert.saved
          /\ IsCurrent(records[i])
          /\ records[i].model = LastUpsert.model
          /\ BelongsTo(records[i], credentials, LastSubject)

(* ------------------------------------------------------------------ *)
(* C20                                                                  *)
(* ------------------------------------------------------------------ *)

\* C20: no step removes a record or a Credential from the associations of
\* a record, current or historical, and every upsert that an ingestion
\* completes adds the Credential being ingested to the associations of the
\* record it resolved.
C20_AssociationsOnlyGrow ==
    [][ /\ Len(records') >= Len(records)
        /\ \A i \in DOMAIN records :
              records[i].credentials \subseteq records'[i].credentials
        /\ result'.op = "populate" =>
              \A k \in DOMAIN result'.trace :
                  Len(credentials')
                      \in records'[result'.trace[k].saved].credentials
      ]_vars

\* A record that was associated with two Credentials has since been
\* superseded by the upsert of a third and still carries both.
C20_Witness_HistoricalKeepsBoth ==
    /\ Upserted
    /\ \E i \in DOMAIN records :
          /\ ~IsCurrent(records[i])
          /\ Cardinality(records[i].credentials) >= 2
          /\ LastCredential \notin records[i].credentials

(* ------------------------------------------------------------------ *)
(* C21                                                                  *)
(* ------------------------------------------------------------------ *)

\* C21: a record that has an end-date is left as it is by every later
\* ingestion: its end-date, its fields and its associations do not change.
C21_SupersededIsFinal ==
    [][ \A i \in DOMAIN records :
            ~IsCurrent(records[i]) =>
                (i \in DOMAIN records' /\ records'[i] = records[i]) ]_vars

\* The last upsert's filter values are carried by a record of the same
\* Subject and kind that an earlier ingestion had superseded.
C21_Witness_SupersededWouldMatch ==
    /\ Upserted
    /\ \E i \in DOMAIN records :
          /\ ~IsCurrent(records[i])
          /\ records[i].end_date # EndDate(LastCredential)
          /\ records[i].model = LastUpsert.model
          /\ BelongsTo(records[i], credentials, LastSubject)
          /\ \A f \in DOMAIN LastUpsert.model_args :
                records[i].values[f] = LastUpsert.model_args[f]

(* ------------------------------------------------------------------ *)
(* C22                                                                  *)
(* ------------------------------------------------------------------ *)

\* C22: an ingestion for a Subject leaves every record that does not
\* belong to that Subject as it is, and in every state all Credentials
\* associated with one record belong to the same Subject.
C22_IsolatedPerSubject ==
    [][ Len(credentials') = Len(credentials) + 1 =>
          /\ \A i \in DOMAIN records :
                ~BelongsTo(records[i], credentials,
                           credentials'[Len(credentials')].subject)
                => (i \in DOMAIN records' /\ records'[i] = records[i])
          /\ \A i \in DOMAIN records' :
                \A c, d \in records'[i].credentials :
                    credentials'[c].subject = credentials'[d].subject
      ]_vars

\* The last upsert saved a record for one Subject while a current record
\* of the same kind with the same field values belongs to another Subject.
C22_Witness_SameValuesOtherSubject ==
    /\ Upserted
    /\ \E j \in DOMAIN records :
          /\ j # LastUpsert.saved
          /\ IsCurrent(records[j])
          /\ records[j].model = records[LastUpsert.saved].model
          /\ records[j].values = records[LastUpsert.saved].values
          /\ ~BelongsTo(records[j], credentials, LastSubject)

(* ------------------------------------------------------------------ *)
(* C23                                                                  *)
(* ------------------------------------------------------------------ *)

\* process() got as far as populate_application_database.
Populating(r) == "store_calls" \in DOMAIN r

\* C23: process() calls the wallet store only after the population of the
\* credential has completed: when process() fails before or in the
\* population the wallet is not called; when the wallet store fails, the
\* Credential, its Claims and the record changes stay in the database; and
\* when process() succeeds the credential is in the wallet and in the
\* database.
C23_StoreAfterPopulation ==
    [][ result'.op = "process" =>
          /\ (~result'.ok /\ result'.error # "WalletError") =>
                /\ wallet' = wallet
                /\ Populating(result') => result'.store_calls = 0
          /\ result'.error = "WalletError" =>
                /\ wallet' = wallet
                /\ result'.store_calls = 1
                /\ Len(credentials') = Len(credentials) + 1
                /\ Len(claims') =
                      Len(claims) + Len(result'.credential_data.keys)
                /\ \A k \in DOMAIN result'.trace :
                      Len(credentials')
                          \in records'[result'.trace[k].saved].credentials
          /\ result'.ok =>
                /\ result'.store_calls = 1
                /\ Len(wallet') = Len(wallet) + 1
                /\ wallet'[Len(wallet')].credential = result'.credential_data
                /\ Len(credentials') = Len(credentials) + 1
      ]_vars

\* The wallet store of the last credential failed after an earlier
\* credential had been stored: its Credential and its record are in the
\* database and not in the wallet.
C23_Witness_WalletFailedRowsStay ==
    /\ result.op = "process"
    /\ result.error = "WalletError"
    /\ Len(result.trace) >= 1
    /\ LastCredential \in records[LastUpsert.saved].credentials
    /\ Len(wallet) >= 1
    /\ Len(wallet) < Len(credentials)

(* ------------------------------------------------------------------ *)
(* C24                                                                  *)
(* ------------------------------------------------------------------ *)

\* C24: when the wallet's answer has an attribute with an empty candidate
\* list, construct_proof fails without calling create_proof and without a
\* payload; a payload that is returned has, for every attribute of the
\* answer, an entry with a cred_id.
C24_EmptyCandidatesFail ==
    proof.stage \in {"returned", "raised"} =>
        /\ (\E n \in DOMAIN proof.attrs : Len(proof.attrs[n]) = 0) =>
              /\ proof.stage = "raised"
              /\ proof.create_proof = <<>>
              /\ "requested_credentials" \notin DOMAIN proof
        /\ proof.stage = "returned" =>
              \A n \in DOMAIN proof.attrs :
                  /\ n \in DOMAIN proof.requested_credentials
                                      .requested_attributes
                  /\ "cred_id" \in
                        DOMAIN proof.requested_credentials
                                   .requested_attributes[n]
                  /\ proof.requested_credentials.requested_attributes[n]
                        .cred_id \in Referents

\* The wallet answered one attribute with candidates and one without, and
\* construct_proof failed.
C24_Witness_OneEmptyOneOffered ==
    /\ proof.stage = "raised"
    /\ \E n, m \in DOMAIN proof.attrs :
          /\ Len(proof.attrs[n]) = 0
          /\ Len(proof.attrs[m]) >= 1

(* ------------------------------------------------------------------ *)
(* C5                                                                   *)
(* ------------------------------------------------------------------ *)

\* process() wrote the Credential and every rule of its configuration.
ProcessPopulated ==
    /\ result.op = "process"
    /\ result.error \in {"", "WalletError"}

\* C5: process() persists the Credential under the Subject whose source
\* identifier is the value of the credential's source claim.
C5_SubjectFromSourceClaim ==
    (ProcessPopulated
     /\ LastType.source_claim \in DOMAIN result.credential_data.values) =>
        subjects[LastSubject] =
            result.credential_data.values[LastType.source_claim].raw

(* ------------------------------------------------------------------ *)
(* C6                                                                   *)
(* ------------------------------------------------------------------ *)

\* C6: an ingestion that fails in the mapping leaves no Credential row and
\* no Claim row behind.
C6_NothingPersistedOnFailure ==
    [][ (result'.op = "process" /\ result'.error \in MappingErrors)
        => (credentials' = credentials /\ claims' = claims) ]_vars

(* ------------------------------------------------------------------ *)
(* C3                                                                   *)
(* ------------------------------------------------------------------ *)

\* C3: when workers ingest concurrently under one rule for one Subject, no
\* two current records of the Subject and kind carry the same
\* cardinality-value tuple, in any state.
C3_AtMostOneCurrentConcurrent ==
    FixedRuleHistory =>
        \A i, j \in DOMAIN records :
            ( /\ records[i].model = FixedRule.model
              /\ records[j].model = FixedRule.model
              /\ BelongsTo(records[i], credentials, credentials[1].subject)
              /\ BelongsTo(records[j], credentials, credentials[1].subject)
              /\ IsCurrent(records[i]) /\ IsCurrent(records[j])
              /\ \A f \in CardinalityFieldsOf(FixedRule) :
                    records[i].values[f] = records[j].values[f] )
            => i = j

====
